---------------------------- MODULE Spec2Model ----------------------------
(***************************************************************************)
(* The item-catalog service of mercari-build-training-2023 (Go).           *)
(*                                                                         *)
(* Three generations of the same program are modelled side by side:        *)
(*   "part_000"  src/unnamed/part_000  flat file items.json, no getByID    *)
(*   "main"      src/go/app/main.go    flat file items.json, positional id *)
(*   "part_001"  src/unnamed/part_001  sqlite table items, search          *)
(* A behaviour runs one generation (gen) against one environment (the      *)
(* state of items.json, of the database file and of the image             *)
(* directories).  Strings are TLA+ strings; file names are plain names     *)
(* without a path separator, and form values are valid UTF-8 text, which   *)
(* encoding/json stores and returns unchanged.                             *)
(***************************************************************************)
EXTENDS Integers, Sequences, FiniteSets, TLC

(***************************************************************************)
(* Bounds of the model.                                                    *)
(***************************************************************************)
\* requests served in one behaviour (caps the catalog, the ids, the handles)
MaxRequests == 3
\* requests in flight at once in the interleaved specification
NumProcs == 2

(***************************************************************************)
(* Program constants.                                                      *)
(***************************************************************************)
ImgDir == "images"
ImgDirRelative == "../" \o ImgDir
DefaultImg == "default.jpg"
StatusOK == 200
StatusBadRequest == 400
StatusNotFound == 404
StatusInternalServerError == 500

(***************************************************************************)
(* Inputs.                                                                 *)
(***************************************************************************)
Names == {"shoes", "bag"}
Categories == {"fashion"}
Filenames == {"shoes.jpg", "bag.jpg", "cat.png", "hat.JPG"}
\* contents of an uploaded photo
UploadBytes == {"jpeg-upload"}
\* contents of a blob that was in images/ before the program started
ProvisionedBytes == "jpeg-provisioned"
\* contents of images/default.jpg
DefaultBytes == "jpeg-default"

(***************************************************************************)
(* Library functions the handlers call.                                    *)
(***************************************************************************)
Char(s, i) == SubSeq(s, i, i)

Max(S) == CHOOSE x \in S : \A y \in S : y <= x

\* strings.HasSuffix
HasSuffix(s, suffix) ==
    /\ Len(s) >= Len(suffix)
    /\ SubSeq(s, Len(s) - Len(suffix) + 1, Len(s)) = suffix

\* path.Ext: the suffix beginning at the final dot of the final
\* slash-separated element; empty if there is no dot
Ext(p) ==
    LET dots == {i \in 1..Len(p) :
                    /\ Char(p, i) = "."
                    /\ \A j \in i..Len(p) : Char(p, j) # "/"}
    IN IF dots = {} THEN "" ELSE SubSeq(p, Max(dots), Len(p))

\* path.Join of a directory and a plain file name
Join(dir, name) == dir \o "/" \o name

\* fmt.Sprintf("%x", sha256.Sum256([]byte(s))): the hex digest of the name
Sum256Hex(s) ==
    CASE s = "shoes.jpg" -> "ab8c0473395ba00807e93ce474c7fa875f27b8a63020c446f787dbe9ef0db3e2"
      [] s = "bag.jpg"   -> "c8ad6ad25bfade893597f8436a8bf4767082ea6981fbff60af1fe9d5a4499b35"
      [] s = "cat.png"   -> "b94f5ce0690dbe021dcf4110f2c756483eee412ce056843451eb3b19c15547ad"
      [] s = "hat.JPG"   -> "282f94151e63ad2bbab82dea2fde5871dcd3d824bd5de603580389f7ee9716dc"

Digit(d) == Char("0123456789", d + 1)

\* strconv.Itoa for the non-negative numbers the model reaches
RECURSIVE Itoa(_)
Itoa(n) == IF n < 10 THEN Digit(n) ELSE Itoa(n \div 10) \o Digit(n % 10)

\* json.Marshal of an Items value: the document {"items":[...]}
Marshal(items) == [json |-> TRUE, items |-> items]

\* the bytes of a file of length zero (not a JSON document)
EmptyBytes == [json |-> FALSE, items |-> <<>>]

\* json.Unmarshal into a zero Items value; the error of an input that is
\* no document is ignored by every caller and leaves the slice nil
Unmarshal(bytes) == IF bytes.json THEN bytes.items ELSE <<>>


(***************************************************************************)
(* State.                                                                  *)
(***************************************************************************)
VARIABLES
    gen,         \* the generation of the program that is running
    itemsJson,   \* items.json: [exists, perm, data]
    db,          \* ../../db/items.db: [mode, table, rows, seq]
    images,      \* the files of the image directories: path -> bytes
    dirs,        \* the directories that exist and can be written
    handles,     \* file and database handles opened and not yet closed
    nreq,        \* requests served so far
    last,        \* the last request served and its response
    prev,        \* the request served before it
    pc,          \* interleaved adds: each request's position in updateJson
    loc          \* interleaved adds: each request's input and local items

vars == <<gen, itemsJson, db, images, dirs, handles, nreq, last, prev, pc, loc>>

Gens == {"part_000", "main", "part_001"}
FlatGens == {"part_000", "main"}

\* response bodies: none that matters here (an error, a message), the JSON
\* value null, a list of items, one item, the bytes of a file
NoBody == [kind |-> "none", items |-> <<>>, bytes |-> ""]
NullBody == [kind |-> "null", items |-> <<>>, bytes |-> ""]
ItemsBody(items) == [kind |-> "items", items |-> items, bytes |-> ""]
ItemBody(item) == [kind |-> "item", items |-> <<item>>, bytes |-> ""]
FileBody(bytes) == [kind |-> "file", items |-> <<>>, bytes |-> bytes]

(***************************************************************************)
(* The file system calls.                                                  *)
(***************************************************************************)
\* os.Open(ItemFile) succeeds
CanOpen(file) == file.exists /\ file.perm # "none"

\* ioutil.WriteFile(ItemFile, ...) succeeds (O_WRONLY|O_CREATE|O_TRUNC)
CanWrite(file) == ~file.exists \/ file.perm = "rw"

\* os.Stat(path) succeeds
Stat(path) == path \in DOMAIN images

\* os.Create(path) followed by io.Copy of the upload
CreateAndCopy(path, bytes) ==
    [p \in DOMAIN images \cup {path} |-> IF p = path THEN bytes ELSE images[p]]


\* the multipart forms a client posts: with an image part, or without one
Forms ==
    [name : Names, category : Categories, hasImage : {TRUE},
     filename : Filenames, bytes : UploadBytes]
    \cup
    [name : Names, category : Categories, hasImage : {FALSE},
     filename : {""}, bytes : {""}]

(***************************************************************************)
(* The image store, the same text in the three generations                 *)
(* (main.go 114-128 and 164-186, part_000 87-100 and 133-155,              *)
(* part_001 120-134 and 195-217).                                          *)
(***************************************************************************)
\* echo's c.File: the file's bytes, or 404 when it cannot be opened
File(path) ==
    IF Stat(path)
    THEN [status |-> StatusOK, body |-> FileBody(images[path])]
    ELSE [status |-> StatusNotFound, body |-> NoBody]

\* getImg without the fallback to the default image
getImg_NoFallback(imageFilename) ==
    LET imgPath == Join(ImgDir, imageFilename)
    IN IF ~HasSuffix(imgPath, ".jpg")
       THEN [status |-> StatusBadRequest, body |-> NoBody]
       ELSE File(imgPath)

getImg(imageFilename) ==
    LET imgPath == Join(ImgDir, imageFilename)
    IN IF ~HasSuffix(imgPath, ".jpg")
       THEN [status |-> StatusBadRequest, body |-> NoBody]
       ELSE IF ~Stat(imgPath)
            THEN File(Join(ImgDir, DefaultImg))
            ELSE File(imgPath)

\* the path the upload is written to
SavePath(filename) == Join(ImgDirRelative, Sum256Hex(filename) \o ".jpg")

\* the image files after saveImageToLocal; a failure of os.Create is
\* printed and the function returns
saveImageToLocal(filename, bytes) ==
    IF ImgDirRelative \notin dirs
    THEN images
    ELSE CreateAndCopy(SavePath(filename), bytes)

(***************************************************************************)
(* The flat-file catalog of part_000.                                      *)
(***************************************************************************)
FlatItem(name, category, imageFileName) ==
    [Name |-> name, Category |-> category, ImageFileName |-> imageFileName]

\* the document updateJson writes, from the bytes it read
NewDocument_000(data, name, category, filename) ==
    Marshal(Append(Unmarshal(data),
                   FlatItem(name, category, Sum256Hex(filename) \o ".jpg")))

\* items.json after updateJson: every failure is printed and swallowed
updateJson_000(file, name, category, filename) ==
    IF ~CanOpen(file) THEN file
    ELSE IF ~CanWrite(file) THEN file
    ELSE [file EXCEPT !.data = NewDocument_000(file.data, name, category, filename)]

\* a returned error reaches echo's default error handler: 500
getItems_000(file) ==
    IF ~CanOpen(file)
    THEN [status |-> StatusInternalServerError, body |-> NoBody]
    ELSE [status |-> StatusOK, body |-> ItemsBody(Unmarshal(file.data))]

(***************************************************************************)
(* The flat-file catalog of main.go.                                       *)
(***************************************************************************)
readItems(file) ==
    IF ~CanOpen(file)
    THEN [err |-> TRUE, data |-> EmptyBytes]
    ELSE [err |-> FALSE, data |-> file.data]

NewDocument_main(data, name, category, filename) ==
    Marshal(Append(Unmarshal(data),
                   FlatItem(name, category,
                            Sum256Hex(filename) \o Ext(filename))))

\* items.json after updateJson, and the error it returns
updateJson_main(file, name, category, filename) ==
    IF Ext(filename) # ".jpg" THEN [err |-> TRUE, file |-> file]
    ELSE IF ~CanOpen(file) THEN [err |-> TRUE, file |-> file]
    ELSE IF readItems(file).err THEN [err |-> TRUE, file |-> file]
    ELSE IF ~CanWrite(file) THEN [err |-> TRUE, file |-> file]
    ELSE [err |-> FALSE,
          file |-> [file EXCEPT !.data =
                       NewDocument_main(readItems(file).data,
                                        name, category, filename)]]

getItems_main(file) ==
    IF ~CanOpen(file)
    THEN [status |-> StatusBadRequest, body |-> NoBody]
    ELSE IF readItems(file).err
    THEN [status |-> StatusInternalServerError, body |-> NoBody]
    ELSE [status |-> StatusOK, body |-> ItemsBody(Unmarshal(readItems(file).data))]

\* getItemsByID counting positions from one
getItemsByID_OneBased(file, id) ==
    IF ~CanOpen(file)
    THEN [status |-> StatusBadRequest, body |-> NoBody]
    ELSE LET items == Unmarshal(readItems(file).data)
             hits == {i \in 1..Len(items) : Itoa(i) = id}
         IN IF hits = {}
            THEN [status |-> StatusNotFound, body |-> NoBody]
            ELSE [status |-> StatusOK, body |-> ItemBody(items[CHOOSE i \in hits : TRUE])]

getItemsByID(file, id) ==
    IF ~CanOpen(file)
    THEN [status |-> StatusBadRequest, body |-> NoBody]
    ELSE IF readItems(file).err
    THEN [status |-> StatusInternalServerError, body |-> NoBody]
    ELSE LET items == Unmarshal(readItems(file).data)
             hits == {i \in 1..Len(items) : Itoa(i - 1) = id}
         IN IF hits = {}
            THEN [status |-> StatusNotFound, body |-> NoBody]
            ELSE [status |-> StatusOK, body |-> ItemBody(items[CHOOSE i \in hits : TRUE])]


(***************************************************************************)
(* part_001: the catalog in the sqlite table items.                        *)
(***************************************************************************)
\* list still reads items.json
getItems_001(file) ==
    IF ~CanOpen(file)
    THEN [status |-> StatusBadRequest, body |-> NoBody]
    ELSE IF readItems(file).err
    THEN [status |-> StatusInternalServerError, body |-> NoBody]
    ELSE [status |-> StatusOK, body |-> ItemsBody(Unmarshal(readItems(file).data))]

Row(id, name, category, imageFileName) ==
    [ID |-> id, Name |-> name, Category |-> category,
     ImageFileName |-> imageFileName]

\* lower case of an ASCII letter, as sqlite's LIKE folds it
Lower(c) ==
    LET upper == "ABCDEFGHIJKLMNOPQRSTUVWXYZ"
        lower == "abcdefghijklmnopqrstuvwxyz"
        at == {i \in 1..Len(upper) : Char(upper, i) = c}
    IN IF at = {} THEN c ELSE Char(lower, CHOOSE i \in at : TRUE)

\* sqlite's LIKE: % matches any run of characters, _ any one character,
\* the other characters match themselves without regard to ASCII case
RECURSIVE Like(_, _)
Like(pattern, s) ==
    IF Len(pattern) = 0 THEN Len(s) = 0
    ELSE LET c == Char(pattern, 1)
             rest == SubSeq(pattern, 2, Len(pattern))
         IN IF c = "%"
            THEN \E k \in 0..Len(s) : Like(rest, SubSeq(s, k + 1, Len(s)))
            ELSE /\ Len(s) > 0
                 /\ c = "_" \/ Lower(c) = Lower(Char(s, 1))
                 /\ Like(rest, SubSeq(s, 2, Len(s)))

\* SELECT * FROM items WHERE name LIKE pattern, in rowid order
RECURSIVE SelectRows(_, _)
SelectRows(rows, pattern) ==
    IF rows = <<>> THEN <<>>
    ELSE IF Like(pattern, Head(rows).Name)
         THEN <<Head(rows)>> \o SelectRows(Tail(rows), pattern)
         ELSE SelectRows(Tail(rows), pattern)

\* a statement or query reaches the database file
Reachable(d) == d.mode # "down"

\* CREATE TABLE IF NOT EXISTS items: its Exec result is not looked at
CreateTable(d) == IF d.mode = "ok" THEN [d EXCEPT !.table = TRUE] ELSE d

\* INSERT INTO items: the id is the AUTOINCREMENT key; the Exec result
\* is not looked at
Insert(d, name, category, imageFileName) ==
    IF d.mode = "ok"
    THEN [d EXCEPT !.rows = Append(@, Row(d.seq + 1, name, category,
                                           imageFileName)),
                   !.seq = @ + 1]
    ELSE d

\* result: "nil", "err" (a returned error) or "panic" (Exec on the nil
\* statement of a failed Prepare, recovered by middleware.Recover);
\* opened: the sql.DB handles opened, none of which is closed
addItemToDatabase(d, name, category, filename) ==
    IF Ext(filename) # ".jpg"
    THEN [result |-> "err", db |-> d, opened |-> 0]
    ELSE IF ~Reachable(d)
    THEN [result |-> "err", db |-> d, opened |-> 1]
    ELSE IF ~CreateTable(d).table
    THEN [result |-> "panic", db |-> CreateTable(d), opened |-> 1]
    ELSE [result |-> "nil",
          db |-> Insert(CreateTable(d), name, category,
                        Sum256Hex(filename) \o ".jpg"),
          opened |-> 1]

getItemByID(d, id) ==
    IF ~Reachable(d) \/ ~d.table
    THEN [status |-> StatusInternalServerError, body |-> NoBody]
    ELSE LET hits == {i \in 1..Len(d.rows) : Itoa(d.rows[i].ID) = id}
         IN IF hits = {}
            THEN [status |-> StatusNotFound, body |-> NoBody]
            ELSE [status |-> StatusOK,
                  body |-> ItemBody(d.rows[CHOOSE i \in hits : TRUE])]

\* searchItems matching the keyword itself, without the % around it
searchItems_NoWildcards(d, keyword) ==
    IF ~Reachable(d) \/ ~d.table
    THEN [status |-> StatusInternalServerError, body |-> NoBody]
    ELSE LET items == SelectRows(d.rows, keyword)
         IN [status |-> StatusOK,
             body |-> IF items = <<>> THEN NullBody ELSE ItemsBody(items)]

\* a nil slice is answered as the JSON value null
searchItems(d, keyword) ==
    IF ~Reachable(d) \/ ~d.table
    THEN [status |-> StatusInternalServerError, body |-> NoBody]
    ELSE LET items == SelectRows(d.rows, "%" \o keyword \o "%")
         IN [status |-> StatusOK,
             body |-> IF items = <<>> THEN NullBody ELSE ItemsBody(items)]


(***************************************************************************)
(* Requests and their record.                                              *)
(***************************************************************************)
NoForm ==
    [name |-> "", category |-> "", hasImage |-> FALSE,
     filename |-> "", bytes |-> ""]

\* a request and its response; stored and rowid record what an add did to
\* the catalog (whether the item was written, and its primary key)
NoRequest ==
    [op |-> "none", form |-> NoForm, arg |-> "", status |-> 0,
     body |-> NoBody, stored |-> FALSE, rowid |-> 0]

Request(op, form, arg, response) ==
    [op |-> op, form |-> form, arg |-> arg, status |-> response.status,
     body |-> response.body, stored |-> FALSE, rowid |-> 0]

\* c.FormFile("image") failed: 400 before anything is touched
NoImage(form) ==
    Request("add", form, "", [status |-> StatusBadRequest, body |-> NoBody])

\* the request is served and recorded; prev keeps the request before it
\* when that was an add
Served(request) ==
    /\ nreq < MaxRequests
    /\ nreq' = nreq + 1
    /\ last' = request
    /\ prev' = IF last.op = "add" THEN last ELSE NoRequest

\* the item ids a client asks for
IdParams == {Itoa(i) : i \in 0..MaxRequests}

\* the image names a client asks for
ImageParams ==
    {Sum256Hex(f) \o ".jpg" : f \in Filenames}
    \cup {DefaultImg, "nope.jpg", "shoes.png"}

\* the keywords a client searches for
Keywords == {"", "sho", "BAG", "_", "xyz"}

Procs == 1..NumProcs

NoLocal == [form |-> NoForm, doc |-> EmptyBytes, acked |-> {}]

Idle == \A p \in Procs : pc[p] = "idle"

(***************************************************************************)
(* The handlers, one request at a time.                                    *)
(***************************************************************************)
\* part_000 addItem: updateJson returns nothing, the answer is always 200
addItem_000(form) ==
    /\ gen = "part_000" /\ Idle
    /\ IF ~form.hasImage
       THEN /\ Served(NoImage(form))
            /\ UNCHANGED <<itemsJson, images>>
       ELSE /\ itemsJson' = updateJson_000(itemsJson, form.name,
                                           form.category, form.filename)
            /\ images' = saveImageToLocal(form.filename, form.bytes)
            /\ Served([Request("add", form, "",
                               [status |-> StatusOK, body |-> NoBody])
                          EXCEPT !.stored = (itemsJson' # itemsJson)])
    /\ UNCHANGED <<gen, db, dirs, handles, pc, loc>>

\* main.go addItem: the error updateJson returns is dropped
addItem_main(form) ==
    /\ gen = "main" /\ Idle
    /\ IF ~form.hasImage
       THEN /\ Served(NoImage(form))
            /\ UNCHANGED <<itemsJson, images>>
       ELSE /\ itemsJson' = updateJson_main(itemsJson, form.name,
                                            form.category, form.filename).file
            /\ images' = saveImageToLocal(form.filename, form.bytes)
            /\ Served([Request("add", form, "",
                               [status |-> StatusOK, body |-> NoBody])
                          EXCEPT !.stored = (itemsJson' # itemsJson)])
    /\ UNCHANGED <<gen, db, dirs, handles, pc, loc>>

\* part_001 addItem: an error (or the recovered panic) is answered 500 and
\* the image is not saved
addItem_001(form) ==
    /\ gen = "part_001" /\ Idle
    /\ IF ~form.hasImage
       THEN /\ Served(NoImage(form))
            /\ UNCHANGED <<db, images, handles>>
       ELSE LET r == addItemToDatabase(db, form.name, form.category,
                                       form.filename)
            IN /\ db' = r.db
               /\ handles' = handles + r.opened
               /\ IF r.result = "nil"
                  THEN /\ images' = saveImageToLocal(form.filename, form.bytes)
                       /\ Served([Request("add", form, "",
                                          [status |-> StatusOK,
                                           body |-> NoBody])
                                     EXCEPT !.stored = (r.db.rows # db.rows),
                                            !.rowid = r.db.seq])
                  ELSE /\ images' = images
                       /\ Served(Request("add", form, "",
                                         [status |-> StatusInternalServerError,
                                          body |-> NoBody]))
    /\ UNCHANGED <<gen, itemsJson, dirs, pc, loc>>

\* GET /items
getItems ==
    /\ Idle
    /\ Served(Request("list", NoForm, "",
                      CASE gen = "part_000" -> getItems_000(itemsJson)
                        [] gen = "main" -> getItems_main(itemsJson)
                        [] gen = "part_001" -> getItems_001(itemsJson)))
    /\ UNCHANGED <<gen, itemsJson, db, images, dirs, handles, pc, loc>>

\* GET /items/:itemID of main.go
GetItemsByID(id) ==
    /\ gen = "main" /\ Idle
    /\ Served(Request("getByID", NoForm, id, getItemsByID(itemsJson, id)))
    /\ UNCHANGED <<gen, itemsJson, db, images, dirs, handles, pc, loc>>

\* GET /items/:itemID of part_001: sql.Open without a Close
GetItemByID(id) ==
    /\ gen = "part_001" /\ Idle
    /\ Served(Request("getByID", NoForm, id, getItemByID(db, id)))
    /\ handles' = handles + 1
    /\ UNCHANGED <<gen, itemsJson, db, images, dirs, pc, loc>>

\* GET /search of part_001: sql.Open without a Close
SearchItems(keyword) ==
    /\ gen = "part_001" /\ Idle
    /\ Served(Request("search", NoForm, keyword, searchItems(db, keyword)))
    /\ handles' = handles + 1
    /\ UNCHANGED <<gen, itemsJson, db, images, dirs, pc, loc>>

\* GET /image/:imageFilename
GetImg(imageFilename) ==
    /\ Idle
    /\ Served(Request("fetch", NoForm, imageFilename, getImg(imageFilename)))
    /\ UNCHANGED <<gen, itemsJson, db, images, dirs, handles, pc, loc>>

(***************************************************************************)
(* The environments a behaviour starts in.                                 *)
(***************************************************************************)
\* items.json: absent; present with the empty catalog or with no bytes;
\* present and read-only; present and unreadable
JsonStates ==
    {[exists |-> FALSE, perm |-> "rw", data |-> EmptyBytes],
     [exists |-> TRUE, perm |-> "rw", data |-> Marshal(<<>>)],
     [exists |-> TRUE, perm |-> "rw", data |-> EmptyBytes],
     [exists |-> TRUE, perm |-> "r", data |-> Marshal(<<>>)],
     [exists |-> TRUE, perm |-> "none", data |-> Marshal(<<>>)]}

\* items.db: usable, read-only or unreachable, with or without the table
DbStates ==
    {[mode |-> m, table |-> t, rows |-> <<>>, seq |-> 0] :
        m \in {"ok", "readonly"}, t \in BOOLEAN}
    \cup {[mode |-> "down", table |-> FALSE, rows |-> <<>>, seq |-> 0]}

\* images/: default.jpg alone, or with a blob put there when deploying
ImageDirs ==
    [present \in BOOLEAN |->
        IF present
        THEN (Join(ImgDir, DefaultImg) :> DefaultBytes)
             @@ (Join(ImgDir, Sum256Hex("shoes.jpg") \o ".jpg") :> ProvisionedBytes)
        ELSE (Join(ImgDir, DefaultImg) :> DefaultBytes)]

NoDb == [mode |-> "down", table |-> FALSE, rows |-> <<>>, seq |-> 0]

Init ==
    /\ gen \in Gens
    /\ itemsJson \in JsonStates
    /\ db \in DbStates
    /\ gen \in FlatGens => db = NoDb
    /\ gen = "part_001" => itemsJson.perm = "rw" /\ itemsJson.data.json = itemsJson.exists
    /\ dirs \in {{ImgDir}, {ImgDir, ImgDirRelative}}
    /\ images \in {ImageDirs[present] : present \in BOOLEAN}
    /\ handles = 0
    /\ nreq = 0
    /\ last = NoRequest
    /\ prev = NoRequest
    /\ pc = [p \in Procs |-> "idle"]
    /\ loc = [p \in Procs |-> NoLocal]

Next ==
    \/ \E form \in Forms : addItem_000(form)
    \/ \E form \in Forms : addItem_main(form)
    \/ \E form \in Forms : addItem_001(form)
    \/ getItems
    \/ \E id \in IdParams : GetItemsByID(id)
    \/ \E id \in IdParams : GetItemByID(id)
    \/ \E keyword \in Keywords : SearchItems(keyword)
    \/ \E name \in ImageParams : GetImg(name)

Spec == Init /\ [][Next]_vars


(***************************************************************************)
(* Interleaved requests against the flat file.  echo serves every request  *)
(* on its own goroutine, so the steps of updateJson of two adds, and a     *)
(* list, interleave: open and read the document, truncate it (WriteFile    *)
(* opens with O_TRUNC), write the new document, save the image and answer. *)
(* The environment is healthy and every upload is a .jpg, so that what     *)
(* goes wrong here is the interleaving alone.                              *)
(***************************************************************************)
ConcForms == {form \in Forms : form.hasImage /\ Ext(form.filename) = ".jpg"}

\* POST /items arrives
Begin(p, form) ==
    /\ pc[p] = "idle"
    /\ nreq < MaxRequests
    /\ nreq' = nreq + 1
    /\ pc' = [pc EXCEPT ![p] = "read"]
    /\ loc' = [loc EXCEPT ![p].form = form]
    /\ UNCHANGED <<gen, itemsJson, db, images, dirs, handles, last, prev>>

\* updateJson: os.Open, ReadAll, Unmarshal, append, Marshal
ReadJson(p) ==
    /\ pc[p] = "read"
    /\ IF CanOpen(itemsJson)
       THEN /\ pc' = [pc EXCEPT ![p] = "truncate"]
            /\ loc' = [loc EXCEPT ![p].doc =
                          IF gen = "part_000"
                          THEN NewDocument_000(itemsJson.data, loc[p].form.name,
                                               loc[p].form.category,
                                               loc[p].form.filename)
                          ELSE NewDocument_main(itemsJson.data, loc[p].form.name,
                                                loc[p].form.category,
                                                loc[p].form.filename)]
       ELSE /\ pc' = [pc EXCEPT ![p] = "save"]
            /\ loc' = loc
    /\ UNCHANGED <<gen, itemsJson, db, images, dirs, handles, nreq, last, prev>>

\* ioutil.WriteFile: the file is opened with O_TRUNC
Truncate(p) ==
    /\ pc[p] = "truncate"
    /\ IF CanWrite(itemsJson)
       THEN /\ itemsJson' = [itemsJson EXCEPT !.data = EmptyBytes]
            /\ pc' = [pc EXCEPT ![p] = "write"]
       ELSE /\ itemsJson' = itemsJson
            /\ pc' = [pc EXCEPT ![p] = "save"]
    /\ UNCHANGED <<gen, db, images, dirs, handles, nreq, last, prev, loc>>

\* ioutil.WriteFile: the document is written
WriteJson(p) ==
    /\ pc[p] = "write"
    /\ itemsJson' = [itemsJson EXCEPT !.data = loc[p].doc]
    /\ pc' = [pc EXCEPT ![p] = "save"]
    /\ UNCHANGED <<gen, db, images, dirs, handles, nreq, last, prev, loc>>

\* addItem: saveImageToLocal, then 200 "item received"
Respond(p) ==
    /\ pc[p] = "save"
    /\ images' = saveImageToLocal(loc[p].form.filename, loc[p].form.bytes)
    /\ pc' = [pc EXCEPT ![p] = "idle"]
    /\ loc' = [loc EXCEPT ![p].acked = @ \cup
                  {FlatItem(loc[p].form.name, loc[p].form.category,
                            Sum256Hex(loc[p].form.filename) \o ".jpg")}]
    /\ UNCHANGED <<gen, itemsJson, db, dirs, handles, nreq, last, prev>>

\* GET /items while adds are in flight
ListItems ==
    /\ nreq < MaxRequests
    /\ nreq' = nreq + 1
    /\ last' = Request("list", NoForm, "",
                       IF gen = "part_000" THEN getItems_000(itemsJson)
                                           ELSE getItems_main(itemsJson))
    /\ UNCHANGED <<gen, itemsJson, db, images, dirs, handles, prev, pc, loc>>

InitConc ==
    /\ Init
    /\ gen \in FlatGens
    /\ itemsJson = [exists |-> TRUE, perm |-> "rw", data |-> Marshal(<<>>)]

NextConc ==
    \/ \E p \in Procs, form \in ConcForms : Begin(p, form)
    \/ \E p \in Procs : ReadJson(p)
    \/ \E p \in Procs : Truncate(p)
    \/ \E p \in Procs : WriteJson(p)
    \/ \E p \in Procs : Respond(p)
    \/ ListItems

SpecConc == InitConc /\ [][NextConc]_vars


(***************************************************************************)
(* What the claims speak of.                                               *)
(***************************************************************************)
\* the upload's name ends in .jpg
Jpg(filename) == HasSuffix(filename, ".jpg")

\* the catalog as the generation's store holds it
Catalog == IF gen = "part_001" THEN db.rows ELSE Unmarshal(itemsJson.data)

\* what GET /items would answer now
ListNow ==
    CASE gen = "part_000" -> getItems_000(itemsJson)
      [] gen = "main" -> getItems_main(itemsJson)
      [] gen = "part_001" -> getItems_001(itemsJson)

\* the name the catalog stores for an upload
StoredName(filename) == Sum256Hex(filename) \o ".jpg"

IsPrefix(a, b) == Len(a) <= Len(b) /\ SubSeq(b, 1, Len(a)) = a

\* sub occurs in s, byte for byte
Contains(s, sub) ==
    \E i \in 0..(Len(s) - Len(sub)) : SubSeq(s, i + 1, i + Len(sub)) = sub

\* sub occurs in s when ASCII case is ignored
ContainsFolded(s, sub) ==
    \E i \in 0..(Len(s) - Len(sub)) :
        \A j \in 1..Len(sub) : Lower(Char(s, i + j)) = Lower(Char(sub, j))

\* the keyword holds none of LIKE's metacharacters
Literal(keyword) ==
    \A i \in 1..Len(keyword) : Char(keyword, i) \notin {"%", "_"}

(***************************************************************************)
(* C1: a successful add of a .jpg upload followed at once by list returns  *)
(* a catalog that holds an item with the name, the category and the image  *)
(* name hex(SHA-256(filename)) + ".jpg", in each generation.  Stated for   *)
(* adds that did write their item.                                         *)
(***************************************************************************)
C1_AddThenList ==
    (/\ last.op = "list"
     /\ prev.op = "add" /\ prev.status = StatusOK /\ prev.stored
     /\ Jpg(prev.form.filename))
    => /\ last.status = StatusOK
       /\ \E i \in 1..Len(last.body.items) :
            /\ last.body.items[i].Name = prev.form.name
            /\ last.body.items[i].Category = prev.form.category
            /\ last.body.items[i].ImageFileName = StoredName(prev.form.filename)

(***************************************************************************)
(* C2: an add whose upload does not end in .jpg is answered 400 and leaves *)
(* the catalog as it was: list answers the same before and after.          *)
(***************************************************************************)
C2_NonJpgRejected ==
    [][(/\ nreq' = nreq + 1
        /\ last'.op = "add" /\ last'.form.hasImage
        /\ ~Jpg(last'.form.filename))
       => (last'.status = StatusBadRequest /\ ListNow' = ListNow)]_vars

\* the id and the item of the add recorded in prev
JustAddedId == IF gen = "main" THEN Itoa(Len(Catalog) - 1) ELSE Itoa(prev.rowid)

JustAdded ==
    IF gen = "main"
    THEN FlatItem(prev.form.name, prev.form.category,
                  StoredName(prev.form.filename))
    ELSE Row(prev.rowid, prev.form.name, prev.form.category,
             StoredName(prev.form.filename))

(***************************************************************************)
(* C3: getByID with the id of the item just added (main.go: its position,  *)
(* the list length minus one; part_001: the key the insert assigned)       *)
(* returns exactly that item, whatever the catalog held before.            *)
(***************************************************************************)
C3_GetByIDAfterAdd ==
    (/\ last.op = "getByID"
     /\ prev.op = "add" /\ prev.stored
     /\ last.arg = JustAddedId)
    => (last.status = StatusOK /\ last.body = ItemBody(JustAdded))

C3_Witness ==
    /\ gen = "main"
    /\ last.op = "getByID"
    /\ prev.op = "add" /\ prev.stored
    /\ last.arg = JustAddedId
    /\ Len(Catalog) >= 2

(***************************************************************************)
(* C4: after a successful add of a .jpg upload, fetch of the stored image  *)
(* name returns the uploaded bytes, not the default image.                 *)
(***************************************************************************)
C4_FetchAfterAdd ==
    (/\ last.op = "fetch"
     /\ prev.op = "add" /\ prev.status = StatusOK
     /\ Jpg(prev.form.filename)
     /\ last.arg = StoredName(prev.form.filename))
    => (last.status = StatusOK /\ last.body = FileBody(prev.form.bytes))

(***************************************************************************)
(* C5: fetch of a name that does not end in .jpg is answered 400 and       *)
(* serves no file; fetch of a name ending in .jpg with no blob in the      *)
(* image directory is answered with the default image, never an error.     *)
(***************************************************************************)
C5_Fetch ==
    last.op = "fetch" =>
        /\ ~HasSuffix(last.arg, ".jpg") =>
              (last.status = StatusBadRequest /\ last.body.kind # "file")
        /\ (HasSuffix(last.arg, ".jpg") /\ ~Stat(Join(ImgDir, last.arg))) =>
              (last.status = StatusOK /\ last.body = FileBody(DefaultBytes))

C5_Witness ==
    /\ last.op = "fetch"
    /\ HasSuffix(last.arg, ".jpg") /\ ~Stat(Join(ImgDir, last.arg))
    /\ prev.op = "add" /\ prev.status = StatusOK
    /\ Stat(SavePath(prev.form.filename))

(***************************************************************************)
(* C6: when the catalog's medium cannot be opened, read or written during  *)
(* add, the add is answered 500: the handler never answers "item received" *)
(* for an item that was not persisted.  Stated for .jpg uploads.           *)
(***************************************************************************)
C6_StorageErrorSurfaced ==
    (/\ last.op = "add" /\ last.form.hasImage /\ Jpg(last.form.filename)
     /\ ~last.stored)
    => last.status = StatusInternalServerError

C8_ListAbsentFile ==
    (gen # "part_000" /\ last.op = "list" /\ ~itemsJson.exists)
    => (last.status = StatusOK /\ last.body = ItemsBody(<<>>))

\* every add answered 200 is in the catalog
AckedPresent ==
    \A p \in Procs : \A item \in loc[p].acked :
        \E i \in 1..Len(Catalog) : Catalog[i] = item

(***************************************************************************)
(* C9: the catalog is append-only under every interleaving of requests:    *)
(* a list returns what the list before it returned, at the same positions, *)
(* and when no request is in flight every add that was answered 200 is in  *)
(* the catalog.                                                            *)
(***************************************************************************)
C9_AppendOnly ==
    /\ [](Idle => AckedPresent)
    /\ [][(last.op = "list" /\ last'.op = "list")
           => IsPrefix(last.body.items, last'.body.items)]_vars

(***************************************************************************)
(* C10: every handle an operation opens is released on every exit path:    *)
(* when no request is in flight, no handle opened by a request is open.    *)
(***************************************************************************)
C10_HandlesReleased == Idle => handles = 0

=============================================================================
